---------------------------- MODULE Spec2Model ----------------------------
(***************************************************************************)
(* A model of scripts/extract_utils.py: ROMExtractor (format detection,    *)
(* recursive extraction, manifest scan) and the CLI entry point main().    *)
(*                                                                         *)
(* A file name is the sequence of its dot-separated parts, so that         *)
(* "x.tar.br" is <<"x","tar","br">> and the hidden file ".md5" is          *)
(* <<"","md5">>.  A path is a sequence of names (directories first).       *)
(* A blob is what a file holds: the tag of its first bytes (magic), what   *)
(* it really encodes (enc) and, for a container, its members.              *)
(***************************************************************************)
EXTENDS Integers, Sequences, FiniteSets, TLC

\* ------------------------------------------------------------------ bounds
\* Deepest chain of nested extract() calls the model follows.
MaxDepth == 4
\* Longest member list of a generated zip archive.
MaxMembers == 2

\* ------------------------------------------------------------------- names
\* str.lower() on one part of a name (the parts the model uses).
LowerPart(p) ==
  CASE p = "TAR" -> "tar"
    [] p = "ZIP" -> "zip"
    [] p = "PAYLOAD" -> "payload"
    [] p = "BIN" -> "bin"
    [] p = "X" -> "x"
    [] OTHER -> p

Lower(name) == [i \in 1..Len(name) |-> LowerPart(name[i])]

\* PurePath.suffix without its leading dot; "" when the name has none (no dot,
\* a trailing dot, or only the leading dot of a hidden file).
Suffix(name) ==
  IF Len(name) >= 2 /\ name[Len(name)] # "" /\ ~(Len(name) = 2 /\ name[1] = "")
  THEN name[Len(name)]
  ELSE ""

\* PurePath.stem, and the name of PurePath.with_suffix('').
Stem(name) == IF Suffix(name) = "" THEN name ELSE SubSeq(name, 1, Len(name) - 1)

\* str.endswith of a dotted pattern: ".tar.gz" is <<"tar","gz">>.
EndsWithExt(name, pat) ==
  /\ Len(name) > Len(pat)
  /\ SubSeq(name, Len(name) - Len(pat) + 1, Len(name)) = pat

\* str.endswith("payload") on one part of a name.
PartEndsWithPayload(p) == p \in {"payload", "mypayload"}

\* str.endswith('payload.bin'): the pattern has no leading dot.
EndsWithPayloadBin(name) ==
  /\ Len(name) >= 2
  /\ name[Len(name)] = "bin"
  /\ PartEndsWithPayload(name[Len(name) - 1])

PayloadBin == <<"payload", "bin">>

\* ------------------------------------------------------------ detect_format
\* SUPPORTED_FORMATS in dictionary order; each extension as a dotted pattern.
SUPPORTED_FORMATS ==
  << [fmt |-> "zip",     exts |-> {<<"zip">>, <<"apk">>, <<"jar">>}],
     [fmt |-> "tar",     exts |-> {<<"tar">>, <<"tar","gz">>, <<"tgz">>, <<"tar","bz2">>,
                                   <<"tbz2">>, <<"tar","xz">>, <<"txz">>}],
     [fmt |-> "lz4",     exts |-> {<<"lz4">>, <<"tar","lz4">>}],
     [fmt |-> "br",      exts |-> {<<"br">>, <<"tar","br">>}],
     [fmt |-> "sparse",  exts |-> {<<"img">>, <<"sparse">>}],
     [fmt |-> "payload", exts |-> {}],
     [fmt |-> "md5",     exts |-> {<<"md5">>}] >>

\* One entry of the fallback loop: ext in exts or any(name.endswith(e)).
\* The 'payload' entry holds the plain string 'payload.bin'.
TableHit(i, ename, ext) ==
  IF SUPPORTED_FORMATS[i].fmt = "payload"
  THEN EndsWithPayloadBin(ename)
  ELSE \/ (ext # "" /\ <<ext>> \in SUPPORTED_FORMATS[i].exts)
       \/ \E e \in SUPPORTED_FORMATS[i].exts : EndsWithExt(ename, e)

TableLookup(ename, ext) ==
  LET hits == {i \in 1..Len(SUPPORTED_FORMATS) : TableHit(i, ename, ext)}
  IN  IF hits = {} THEN "unknown"
      ELSE SUPPORTED_FORMATS[CHOOSE i \in hits : \A j \in hits : i <= j].fmt

\* detect_format with the file-name rules tried before the magic bytes.
detect_format_name_first(magic, fname) ==
  LET ext   == LowerPart(Suffix(fname))
      ename == Lower(fname)
  IN  IF ename = PayloadBin THEN "payload"
      ELSE IF ext \in {"tar", "gz", "bz2", "xz"} THEN "tar"
      ELSE IF ext = "md5" THEN "md5"
      ELSE CASE magic = "PK0304"   -> "zip"
             [] magic = "28B52FFD" -> "br"
             [] magic = "04224D18" -> "lz4"
             [] magic = "0000000"  -> "sparse"
             [] OTHER -> TableLookup(ename, ext)

\* detect_format over the first bytes of the file and its name.  The first
\* bytes are given by the signature they start with: "PK0304" for 50 4B 03 04,
\* "28B52FFD", "04224D18", "0000000" for seven ASCII zeros, and "none" for a
\* prefix that starts with none of them.
detect_format(magic, fname) ==
  LET ext   == LowerPart(Suffix(fname))
      ename == Lower(fname)
  IN  CASE magic = "PK0304"   -> "zip"
        [] magic = "28B52FFD" -> "br"
        [] magic = "04224D18" -> "lz4"
        [] magic = "0000000"  -> "sparse"
        [] OTHER ->
             IF ename = PayloadBin THEN "payload"
             ELSE IF ext \in {"tar", "gz", "bz2", "xz"} THEN "tar"
             ELSE IF ext = "md5" THEN "md5"
             ELSE TableLookup(ename, ext)

\* -------------------------------------------------------------------- blobs
\* What _get_magic_bytes can return, up to the comparisons of detect_format.
Magics == {"none", "PK0304", "28B52FFD", "04224D18", "0000000"}

Plain(m) == [enc |-> "plain", magic |-> m, members |-> <<>>]

\* One member of a container: its directory inside the container, its name and
\* its content; self marks a member whose content is the container itself (a
\* self-reproducing archive).
Member(d, n, b) == [dir |-> d, name |-> n, self |-> FALSE, body |-> b]
SelfMember(d, n) == [dir |-> d, name |-> n, self |-> TRUE, body |-> Plain("none")]

Tar(ms)    == [enc |-> "tar", magic |-> "none", members |-> ms]
Zip(ms)    == [enc |-> "zip", magic |-> "PK0304", members |-> ms]
Lz4(b)     == [enc |-> "lz4", magic |-> "04224D18", members |-> <<Member(<<>>, <<>>, b)>>]
Brotli(b)  == [enc |-> "br", magic |-> "none", members |-> <<Member(<<>>, <<>>, b)>>]
\* An Android sparse image of an ext4 file system holding ms (its real
\* signature, 3A FF 26 ED, is none of the prefixes detect_format knows).
Sparse(ms) == [enc |-> "sparse", magic |-> "none", members |-> ms]
RawImage(ms) == [enc |-> "ext4", magic |-> "none", members |-> ms]

ATxt      == <<"a", "txt">>
BuildProp == <<"build", "prop">>
BootImg   == <<"boot", "img">>

TarA == Tar(<<Member(<<>>, ATxt, Plain("none"))>>)
TarB == Tar(<<Member(<<>>, BuildProp, Plain("none")),
              Member(<< <<"sub">> >>, BootImg, Plain("none")),
              Member(<<>>, <<"in", "tar">>, TarA)>>)
\* A tar that holds a member named x.tar, the name x.tar.br and x.tar.lz4 are
\* decompressed to.
TarX == Tar(<<Member(<<>>, <<"x", "tar">>, TarA)>>)

\* The members generated zip archives are made of.
ZipPool ==
  { Member(<<>>, ATxt, Plain("none")),
    Member(<<>>, <<"x", "tar">>, TarA),
    Member(<<>>, <<"bad", "zip">>, Plain("none")),
    SelfMember(<<>>, <<"q", "zip">>),
    Member(<<>>, <<"x", "tar", "md5">>, Plain("none")),
    Member(<<>>, <<"y", "lz4">>, Lz4(Plain("none"))),
    Member(<<>>, PayloadBin, Plain("none")),
    Member(<<>>, <<"payload", "bin", "md5">>, Plain("none")),
    Member(<< <<"nested">> >>, BootImg, Plain("none")) }

SeqsUpTo(S, n) == UNION {[1..k -> S] : k \in 1..n}

Zips == {Zip(ms) : ms \in SeqsUpTo(ZipPool, MaxMembers)}

ImageMembers == <<Member(<<>>, BuildProp, Plain("none")),
                  Member(<< <<"system">> >>, ATxt, Plain("none"))>>

\* The blobs a run may be started on.
RomBlobs ==
  {Plain(m) : m \in Magics} \cup Zips \cup
  { TarA, TarB, Lz4(TarA), Lz4(Plain("none")), Brotli(TarA), Brotli(TarB), Brotli(TarX),
    Brotli(Zip(<<Member(<<>>, <<"y", "tar">>, TarA)>>)), Sparse(ImageMembers) }

\* The names a run's input file may have.
RomNames ==
  { <<"x", "zip">>, <<"x", "tar">>, <<"X", "TAR">>, <<"x", "tar", "gz">>,
    <<"x", "lz4">>, <<"x", "tar", "lz4">>, <<"x", "zip", "lz4">>, <<"x", "br">>, <<"x", "tar", "br">>,
    <<"x", "zip", "br">>, <<"x", "img">>, PayloadBin, <<"mypayload", "bin">>,
    <<"x", "tar", "md5">>, <<"payload", "bin", "md5">>, <<"", "md5">>,
    <<"x", "bin">>, <<"x">> }

\* What may lie beside a checksum sidecar under its name without ".md5".
BaseBlobs == {TarA, Plain("none"), Zip(<<SelfMember(<<>>, <<"q", "zip">>)>>)}

\* -------------------------------------------------------------------- paths
InDir  == << <<"in">> >>
OutDir == << <<"out">> >>
NestedName  == <<"nested">>
MountedName == <<"mounted">>
MetaName    == <<"extraction_metadata", "json">>

IsUnder(d, p) == Len(p) > Len(d) /\ SubSeq(p, 1, Len(d)) = d
Rel(d, p) == SubSeq(p, Len(d) + 1, Len(p))
Prefixes(d) == {SubSeq(d, 1, k) : k \in 1..Len(d)}
FileName(p) == p[Len(p)]
Parent(p) == SubSeq(p, 1, Len(p) - 1)

\* --------------------------------------------------------------- file system
\* Path.mkdir(parents=True, exist_ok=True)
MkdirP(ds, d) == ds \cup Prefixes(d)

MemberPath(out, m) == out \o m.dir \o <<m.name>>

\* ZipFile.extractall / TarFile.extractall of blob into out: every member is
\* written, a later member replacing an earlier one at the same path.
ExtractAllFiles(f, out, blob) ==
  LET ms == blob.members
      idx == 1..Len(ms)
      paths == {MemberPath(out, ms[k]) : k \in idx}
      last(q) == CHOOSE k \in idx :
                   /\ MemberPath(out, ms[k]) = q
                   /\ \A j \in idx : MemberPath(out, ms[j]) = q => j <= k
      content(k) == IF ms[k].self THEN blob ELSE ms[k].body
  IN  [q \in (DOMAIN f) \cup paths |-> IF q \in paths THEN content(last(q)) ELSE f[q]]

ExtractAllDirs(ds, out, blob) ==
  ds \cup UNION {Prefixes(out \o blob.members[k].dir) : k \in 1..Len(blob.members)}

\* A member of the archive is written over the archive that is being read.
OverwritesItself(out, rom, blob) ==
  \E k \in 1..Len(blob.members) : MemberPath(out, blob.members[k]) = rom

WriteFile(f, q, b) == [r \in (DOMAIN f) \cup {q} |-> IF r = q THEN b ELSE f[r]]
Unlink(f, q) == [r \in (DOMAIN f) \ {q} |-> f[r]]

\* --------------------------------------------------------------- the manifest
RECURSIVE SetToSeq(_)
SetToSeq(S) ==
  IF S = {} THEN <<>>
  ELSE LET e == CHOOSE e \in S : TRUE IN <<e>> \o SetToSeq(S \ {e})

\* os.walk is top-down: the entries of a directory come before those of the
\* directories below it.  The order inside one directory is the platform's.
RECURSIVE WalkOrder(_, _)
WalkOrder(S, k) ==
  IF S = {} THEN <<>>
  ELSE SetToSeq({r \in S : Len(r) = k}) \o WalkOrder({r \in S : Len(r) > k}, k + 1)

IsBuildProp(r) == FileName(r) = BuildProp
IsImage(r) == EndsWithExt(FileName(r), <<"img">>)

NoValue ==
  [keys |-> {}, format |-> "", output_dir |-> <<>>, files |-> <<>>, directories |-> <<>>,
   build_props |-> <<>>, partition_images |-> <<>>]

\* _scan_output recording str(fpath) instead of str(rel_path) in the two
\* specialized lists.
ScanResultAbsolute(fmt, out, f, ds) ==
  LET files == WalkOrder({Rel(out, q) : q \in {r \in DOMAIN f : IsUnder(out, r)}}, 1)
      props == SelectSeq(files, IsBuildProp)
      images == SelectSeq(files, LAMBDA r : ~IsBuildProp(r) /\ IsImage(r))
  IN  [keys |-> {"format", "output_dir", "files", "directories", "build_props",
                 "partition_images"},
       format |-> fmt,
       output_dir |-> out,
       files |-> files,
       directories |-> WalkOrder({Rel(out, d) : d \in {e \in ds : IsUnder(out, e)}}, 1),
       build_props |-> [k \in 1..Len(props) |-> out \o props[k]],
       partition_images |-> [k \in 1..Len(images) |-> out \o images[k]]]

\* The dictionary _scan_output builds from the walk of out.
ScanResult(fmt, out, f, ds) ==
  LET files == WalkOrder({Rel(out, q) : q \in {r \in DOMAIN f : IsUnder(out, r)}}, 1)
  IN  [keys |-> {"format", "output_dir", "files", "directories", "build_props",
                 "partition_images"},
       format |-> fmt,
       output_dir |-> out,
       files |-> files,
       directories |-> WalkOrder({Rel(out, d) : d \in {e \in ds : IsUnder(out, e)}}, 1),
       build_props |-> SelectSeq(files, IsBuildProp),
       partition_images |-> SelectSeq(files, LAMBDA r : ~IsBuildProp(r) /\ IsImage(r))]

\* _extract_payload's return value.
DelegatedResult == [NoValue EXCEPT !.keys = {"format", "delegated"}, !.format = "payload"]

\* The content of an extraction_metadata.json file, as magic bytes see it.
JsonBlob == Plain("none")

\* --------------------------------------------------------------------- state
VARIABLES
  fs,        \* the files: path -> blob
  dirs,      \* the directories
  metadata,  \* what each extraction_metadata.json holds: directory -> manifest
  stack,     \* the active extract() calls, the top-level one first
  status,    \* "start", "running", "returned", "failed" (of the top-level extract())
  ret,       \* the value the last finished extract() returned
  error,     \* the exception that ended the run
  env,       \* which external tools exist: "?" until first used
  mounted,   \* the raw image is loop-mounted at the mount point
  forced,    \* the CLI's --format ("" when not given)
  exitCode,  \* the CLI's exit status, -1 while it runs
  fs0, dirs0, \* the files and directories the run started with
  calls,     \* history: every extract() call so far, with what it detected
  deleted,   \* history: the paths unlinked so far
  scans,     \* history: every _scan_output walk so far
  cmds       \* history: the mount and umount commands run so far

vars == <<fs, dirs, metadata, stack, status, ret, error, env, mounted, forced, exitCode,
          fs0, dirs0, calls, deleted, scans, cmds>>

Frame(rom, out, fmt) ==
  [rom |-> rom, out |-> out, fmt |-> fmt, pc |-> "extract", nested |-> <<>>, i |-> 1,
   outfile |-> <<>>, pending |-> ""]

Depth == Len(stack)
Top == stack[Depth]
SetTop(fr) == [stack EXCEPT ![Depth] = fr]
At(pc) == status = "running" /\ Depth > 0 /\ Top.pc = pc
RomBlob == fs[Top.rom]
RomName == FileName(Top.rom)
Root == stack[1]

\* An exception no frame handles: it unwinds every extract() call up to main().
\* The stack is kept as it was where the exception was raised.
Raise(e) ==
  /\ status' = "failed"
  /\ error' = e
  /\ UNCHANGED ret

\* The top extract() call returns v to its caller.  The frame of the top-level
\* call stays, at "done", as the record of what the run was started on.
Return(v) ==
  /\ ret' = v
  /\ stack' = IF Depth = 1 THEN SetTop([Top EXCEPT !.pc = "done"])
               ELSE SubSeq(stack, 1, Depth - 1)
  /\ status' = IF Depth = 1 THEN "returned" ELSE status
  /\ UNCHANGED error

\* sub_ext = ROMExtractor(rom, out); sub_ext.extract(), the caller resuming at pc.
\* The model follows at most MaxDepth nested calls; a call beyond that ends the
\* model's run in status "overrun".
Call(rom, out, pc) ==
  IF Depth < MaxDepth
  THEN /\ stack' = Append(SetTop([Top EXCEPT !.pc = pc]), Frame(rom, out, ""))
       /\ UNCHANGED <<status, ret, error>>
  ELSE /\ status' = "overrun"
       /\ UNCHANGED <<stack, ret, error>>

Init ==
  \E n \in RomNames, b \in RomBlobs, base \in {Plain("0000000")} \cup BaseBlobs,
     pre \in BOOLEAN :
    /\ fs = IF Suffix(n) = "md5" /\ base # Plain("0000000")
            THEN (InDir \o <<n>> :> b) @@ (InDir \o <<Stem(n)>> :> base)
            ELSE (InDir \o <<n>> :> b)
    /\ (Suffix(n) # "md5" => base = Plain("0000000"))
    /\ dirs = IF pre THEN {InDir, OutDir} ELSE {InDir}
    /\ metadata = <<>>
    /\ stack = <<Frame(InDir \o <<n>>, OutDir, "")>>
    /\ status = "start"
    /\ ret = NoValue
    /\ error = ""
    /\ env = [lz4 |-> "?", brotli |-> "?", simg2img |-> "?", sudo |-> "?"]
    /\ mounted = FALSE
    /\ forced \in {"", "tar"}
    /\ exitCode = -1
    /\ fs0 = fs
    /\ dirs0 = dirs
    /\ calls = <<>>
    /\ deleted = {}
    /\ scans = <<>>
    /\ cmds = <<>>

\* The outcomes of looking for an external tool: decided at its first use.
Avail(t) == IF env[t] = "?" THEN {"yes", "no"} ELSE {env[t]}

\* -------------------------------------------------------------------- main()
\* main(): the extractor is constructed, --format is stored, extract() is called.
MainStart ==
  /\ status = "start"
  /\ stack' = SetTop([Top EXCEPT !.fmt = forced])
  /\ status' = "running"
  /\ UNCHANGED <<fs, dirs, metadata, ret, error, env, mounted, forced, exitCode, fs0,
                 dirs0, calls, scans, cmds, deleted>>

\* main() after extract(): the summary is printed from the result's keys, or the
\* exception is caught and the process exits with 1.
MainExit ==
  /\ exitCode = -1
  /\ \/ /\ status = "returned"
        /\ exitCode' = IF {"output_dir", "files", "build_props", "partition_images"}
                          \subseteq ret.keys
                       THEN 0 ELSE 1
     \/ /\ status = "failed"
        /\ exitCode' = 1
  /\ UNCHANGED <<fs, dirs, metadata, stack, status, ret, error, env, mounted, forced,
                 fs0, dirs0, calls, scans, cmds, deleted>>

\* ------------------------------------------------------------------ extract()
Extractors == {"zip", "tar", "lz4", "br", "sparse", "payload", "md5"}

Extract ==
  /\ At("extract")
  /\ LET fmt == detect_format(RomBlob.magic, RomName)
     IN  /\ IF fmt \in Extractors
            THEN /\ stack' = SetTop([Top EXCEPT !.fmt = fmt, !.pc = fmt])
                 /\ UNCHANGED <<status, ret, error>>
            ELSE /\ stack' = SetTop([Top EXCEPT !.fmt = fmt])
                 /\ Raise("ValueError")
         /\ calls' = Append(calls, [rom |-> Top.rom, out |-> Top.out, blob |-> RomBlob,
                                    magic |-> RomBlob.magic, fmt |-> fmt, depth |-> Depth])
  /\ UNCHANGED <<fs, dirs, metadata, env, mounted, forced, exitCode, fs0, dirs0, deleted,
                 scans, cmds>>

\* --------------------------------------------------------------- _extract_zip
NestedSuffixes == {"zip", "tar", "md5", "lz4"}

\* f.endswith(('.zip', '.tar', '.md5', '.lz4'))
IsNestedName(n) == \E e \in NestedSuffixes : EndsWithExt(n, <<e>>)

\* The names of zf.namelist() that end in a nested suffix, in archive order.
NestedOf(blob) ==
  LET ms == SelectSeq(blob.members, LAMBDA m : IsNestedName(m.name))
  IN  [k \in 1..Len(ms) |-> ms[k].dir \o <<ms[k].name>>]

\* The destination of a zip's nested archives.
NestedDir(out) == out \o <<NestedName>>

\* mkdir, ZipFile(rom), namelist, extractall
ZipExtract ==
  /\ At("zip")
  /\ IF RomBlob.enc = "zip" /\ OverwritesItself(Top.out, Top.rom, RomBlob)
     THEN /\ dirs' = MkdirP(dirs, Top.out)
          /\ fs' = WriteFile(fs, Top.rom, Plain("none"))
          /\ Raise("EOFError")
          /\ UNCHANGED stack
     ELSE IF RomBlob.enc = "zip"
     THEN /\ fs' = ExtractAllFiles(fs, Top.out, RomBlob)
          /\ dirs' = ExtractAllDirs(MkdirP(dirs, Top.out), Top.out, RomBlob)
          /\ stack' = SetTop([Top EXCEPT !.pc = "zip_loop", !.nested = NestedOf(RomBlob),
                                         !.i = 1])
          /\ UNCHANGED <<status, ret, error>>
     ELSE /\ dirs' = MkdirP(dirs, Top.out)
          /\ Raise("BadZipFile")
          /\ UNCHANGED <<fs, stack>>
  /\ UNCHANGED <<metadata, env, mounted, forced, exitCode, fs0, dirs0, calls, scans,
                 cmds, deleted>>

\* for nest in nested: if nest_path.exists(): sub_ext.extract()
ZipLoop ==
  /\ At("zip_loop")
  /\ IF Top.i > Len(Top.nested)
     THEN /\ stack' = SetTop([Top EXCEPT !.pc = "scan"])
          /\ UNCHANGED <<status, ret, error>>
     ELSE IF Top.out \o Top.nested[Top.i] \in DOMAIN fs
     THEN Call(Top.out \o Top.nested[Top.i], NestedDir(Top.out), "zip_unlink")
     ELSE /\ stack' = SetTop([Top EXCEPT !.i = Top.i + 1])
          /\ UNCHANGED <<status, ret, error>>
  /\ UNCHANGED <<fs, dirs, metadata, env, mounted, forced, exitCode, fs0, dirs0, calls,
                 scans, cmds, deleted>>

\* nest_path.unlink(), after the nested extract() has returned
ZipUnlink ==
  /\ At("zip_unlink")
  /\ IF Top.out \o Top.nested[Top.i] \in DOMAIN fs
     THEN /\ fs' = Unlink(fs, Top.out \o Top.nested[Top.i])
          /\ deleted' = deleted \cup {Top.out \o Top.nested[Top.i]}
          /\ stack' = SetTop([Top EXCEPT !.pc = "zip_loop", !.i = Top.i + 1])
          /\ UNCHANGED <<status, ret, error>>
     ELSE /\ Raise("FileNotFoundError")
          /\ UNCHANGED <<fs, stack, deleted>>
  /\ UNCHANGED <<dirs, metadata, env, mounted, forced, exitCode, fs0, dirs0, calls,
                 scans, cmds>>

\* --------------------------------------------------------------- _extract_tar
TarExtract ==
  /\ At("tar")
  /\ IF RomBlob.enc = "tar" /\ OverwritesItself(Top.out, Top.rom, RomBlob)
     THEN /\ dirs' = MkdirP(dirs, Top.out)
          /\ fs' = WriteFile(fs, Top.rom, Plain("none"))
          /\ Raise("ReadError")
          /\ UNCHANGED stack
     ELSE IF RomBlob.enc = "tar"
     THEN /\ fs' = ExtractAllFiles(fs, Top.out, RomBlob)
          /\ dirs' = ExtractAllDirs(MkdirP(dirs, Top.out), Top.out, RomBlob)
          /\ stack' = SetTop([Top EXCEPT !.pc = "scan"])
          /\ UNCHANGED <<status, ret, error>>
     ELSE /\ dirs' = MkdirP(dirs, Top.out)
          /\ Raise("ReadError")
          /\ UNCHANGED <<fs, stack>>
  /\ UNCHANGED <<metadata, env, mounted, forced, exitCode, fs0, dirs0, calls, scans,
                 cmds, deleted>>

\* ---------------------------------------------------- _extract_lz4, _brotli
\* output_file = output_dir / rom_path.stem
OutputFile(out, rom) == out \o <<Stem(FileName(rom))>>

\* import, mkdir, read, decompress, write of one compressed stream.
Decompress(tool, enc, errname, nextpc) ==
  \E have \in Avail(tool) :
    /\ env' = [env EXCEPT ![tool] = have]
    /\ IF have = "no"
       THEN /\ Raise("ImportError")
            /\ UNCHANGED <<fs, dirs, stack>>
       ELSE IF RomBlob.enc # enc
       THEN /\ dirs' = MkdirP(dirs, Top.out)
            /\ Raise(errname)
            /\ UNCHANGED <<fs, stack>>
       ELSE /\ dirs' = MkdirP(dirs, Top.out)
            /\ fs' = WriteFile(fs, OutputFile(Top.out, Top.rom), RomBlob.members[1].body)
            /\ stack' = SetTop([Top EXCEPT !.pc = nextpc,
                                           !.outfile = OutputFile(Top.out, Top.rom)])
            /\ UNCHANGED <<status, ret, error>>

\* if output_file.suffix in suffixes: sub_ext.extract()
NestAfterDecompress(suffixes, unlinkpc) ==
  IF Suffix(FileName(Top.outfile)) \in suffixes
  THEN Call(Top.outfile, Top.out, unlinkpc)
  ELSE /\ stack' = SetTop([Top EXCEPT !.pc = "scan"])
       /\ UNCHANGED <<status, ret, error>>

\* output_file.unlink(), after the nested extract() has returned
UnlinkOutput ==
  IF Top.outfile \in DOMAIN fs
  THEN /\ fs' = Unlink(fs, Top.outfile)
       /\ deleted' = deleted \cup {Top.outfile}
       /\ stack' = SetTop([Top EXCEPT !.pc = "scan"])
       /\ UNCHANGED <<status, ret, error>>
  ELSE /\ Raise("FileNotFoundError")
       /\ UNCHANGED <<fs, stack, deleted>>

Lz4NestedSuffixes == {"tar"}

Lz4Decode ==
  /\ At("lz4")
  /\ Decompress("lz4", "lz4", "Lz4Error", "lz4_nest")
  /\ UNCHANGED <<metadata, mounted, forced, exitCode, fs0, dirs0, calls, scans, cmds,
                 deleted>>

Lz4Nest ==
  /\ At("lz4_nest")
  /\ NestAfterDecompress(Lz4NestedSuffixes, "lz4_unlink")
  /\ UNCHANGED <<fs, dirs, metadata, env, mounted, forced, exitCode, fs0, dirs0, calls,
                 scans, cmds, deleted>>

Lz4Unlink ==
  /\ At("lz4_unlink")
  /\ UnlinkOutput
  /\ UNCHANGED <<dirs, metadata, env, mounted, forced, exitCode, fs0, dirs0, calls,
                 scans, cmds>>

\* The brotli adapter's suffix list without '.tar'.
BrotliNestedSuffixesNoTar == {"zip", "lz4"}

BrotliNestedSuffixes == {"tar", "zip", "lz4"}

BrotliDecode ==
  /\ At("br")
  /\ Decompress("brotli", "br", "BrotliError", "br_nest")
  /\ UNCHANGED <<metadata, mounted, forced, exitCode, fs0, dirs0, calls, scans, cmds,
                 deleted>>

BrotliNest ==
  /\ At("br_nest")
  /\ NestAfterDecompress(BrotliNestedSuffixes, "br_unlink")
  /\ UNCHANGED <<fs, dirs, metadata, env, mounted, forced, exitCode, fs0, dirs0, calls,
                 scans, cmds, deleted>>

BrotliUnlink ==
  /\ At("br_unlink")
  /\ UnlinkOutput
  /\ UNCHANGED <<dirs, metadata, env, mounted, forced, exitCode, fs0, dirs0, calls,
                 scans, cmds>>

\* ------------------------------------------------ _extract_sparse, _extract_ext4
\* output_img = output_dir / f"{stem}.raw.img"
OutputImg(out, rom) == out \o <<Stem(FileName(rom)) \o <<"raw", "img">> >>
MountPoint(out) == out \o <<MountedName>>

\* mkdir, simg2img, the check of its return code
SparseConvert ==
  /\ At("sparse")
  /\ \E have \in Avail("simg2img") :
       /\ env' = [env EXCEPT !.simg2img = have]
       /\ dirs' = MkdirP(dirs, Top.out)
       /\ IF have = "no"
          THEN /\ Raise("FileNotFoundError")
               /\ UNCHANGED <<fs, stack>>
          ELSE IF RomBlob.enc # "sparse"
          THEN /\ Raise("RuntimeError")
               /\ UNCHANGED <<fs, stack>>
          ELSE /\ fs' = WriteFile(fs, OutputImg(Top.out, Top.rom),
                                  RawImage(RomBlob.members))
               /\ stack' = SetTop([Top EXCEPT !.pc = "ext4_mount",
                                              !.outfile = OutputImg(Top.out, Top.rom)])
               /\ UNCHANGED <<status, ret, error>>
  /\ UNCHANGED <<metadata, mounted, forced, exitCode, fs0, dirs0, calls, scans, cmds,
                 deleted>>

\* mount_point.mkdir; try: subprocess.run(['sudo', 'mount', ...], check=False).
\* The outcome of mount is not looked at; without sudo, run() itself raises and
\* the finally block is entered with that exception pending.
Ext4Mount ==
  /\ At("ext4_mount")
  /\ dirs' = MkdirP(dirs, MountPoint(Top.out))
  /\ \E have \in Avail("sudo") :
       /\ env' = [env EXCEPT !.sudo = have]
       /\ IF have = "no"
          THEN /\ stack' = SetTop([Top EXCEPT !.pc = "ext4_umount",
                                              !.pending = "FileNotFoundError"])
               /\ UNCHANGED mounted
          ELSE /\ mounted' \in BOOLEAN
               /\ stack' = SetTop([Top EXCEPT !.pc = "ext4_copy", !.i = 1])
       /\ cmds' = Append(cmds, [cmd |-> "mount", ok |-> mounted'])
  /\ UNCHANGED <<fs, metadata, status, ret, error, forced, exitCode, fs0, dirs0, calls,
                 scans, deleted>>

\* What mount_point.iterdir() finds: the image's files when it is mounted.
MountedItems == IF mounted THEN fs[Top.outfile].members ELSE <<>>

\* The copy loop outside any try/finally: a copy that raises leaves
\* _extract_ext4 at once.
Ext4CopyNoFinally ==
  /\ At("ext4_copy")
  /\ IF Top.i > Len(MountedItems)
     THEN /\ stack' = SetTop([Top EXCEPT !.pc = "ext4_umount"])
          /\ UNCHANGED <<fs, dirs, status, ret, error>>
     ELSE \/ /\ fs' = WriteFile(fs, MemberPath(Top.out, MountedItems[Top.i]),
                                MountedItems[Top.i].body)
             /\ dirs' = dirs \cup Prefixes(Top.out \o MountedItems[Top.i].dir)
             /\ stack' = SetTop([Top EXCEPT !.i = Top.i + 1])
             /\ UNCHANGED <<status, ret, error>>
          \/ /\ Raise("OSError")
             /\ UNCHANGED <<fs, dirs, stack>>
  /\ UNCHANGED <<metadata, env, mounted, forced, exitCode, fs0, dirs0, calls, scans, cmds,
                 deleted>>

\* for item in mount_point.iterdir(): copytree / copy2 into output_dir; a copy
\* may raise (an unreadable file, a full disk), which enters the finally block.
Ext4Copy ==
  /\ At("ext4_copy")
  /\ IF Top.i > Len(MountedItems)
     THEN /\ stack' = SetTop([Top EXCEPT !.pc = "ext4_umount"])
          /\ UNCHANGED <<fs, dirs>>
     ELSE \/ /\ fs' = WriteFile(fs, MemberPath(Top.out, MountedItems[Top.i]),
                                MountedItems[Top.i].body)
             /\ dirs' = dirs \cup Prefixes(Top.out \o MountedItems[Top.i].dir)
             /\ stack' = SetTop([Top EXCEPT !.i = Top.i + 1])
          \/ /\ stack' = SetTop([Top EXCEPT !.pc = "ext4_umount", !.pending = "OSError"])
             /\ UNCHANGED <<fs, dirs>>
  /\ UNCHANGED <<metadata, status, ret, error, env, mounted, forced, exitCode, fs0,
                 dirs0, calls, scans, cmds, deleted>>

\* finally: subprocess.run(['sudo', 'umount', mount_point], check=False).
\* Without sudo, run() raises inside the finally block and rmdir is not reached.
Ext4Umount ==
  /\ At("ext4_umount")
  /\ IF env.sudo = "no"
     THEN /\ Raise("FileNotFoundError")
          /\ UNCHANGED <<stack, mounted>>
     ELSE /\ mounted' \in (IF mounted THEN BOOLEAN ELSE {FALSE})
          /\ stack' = SetTop([Top EXCEPT !.pc = "ext4_rmdir"])
          /\ UNCHANGED <<status, ret, error>>
  /\ cmds' = Append(cmds, [cmd |-> "umount", ok |-> mounted /\ ~mounted'])
  /\ UNCHANGED <<fs, dirs, metadata, env, forced, exitCode, fs0, dirs0, calls, scans,
                 deleted>>

\* finally: mount_point.rmdir(), then the pending exception, if any, goes on.
Ext4Rmdir ==
  /\ At("ext4_rmdir")
  /\ IF mounted
     THEN /\ Raise("OSError")
          /\ UNCHANGED <<stack, dirs>>
     ELSE /\ dirs' = dirs \ {MountPoint(Top.out)}
          /\ IF Top.pending # ""
             THEN /\ Raise(Top.pending)
                  /\ UNCHANGED stack
             ELSE /\ stack' = SetTop([Top EXCEPT !.pc = "scan"])
                  /\ UNCHANGED <<status, ret, error>>
  /\ UNCHANGED <<fs, metadata, env, mounted, forced, exitCode, fs0, dirs0, calls,
                 scans, cmds, deleted>>

\* ------------------------------------------------------------ _extract_payload
\* _extract_payload creating the output directory before it delegates.
PayloadMkdir ==
  /\ At("payload")
  /\ dirs' = MkdirP(dirs, Top.out)
  /\ Return(DelegatedResult)
  /\ UNCHANGED <<fs, metadata, env, mounted, forced, exitCode, fs0, dirs0, calls,
                 scans, cmds, deleted>>

Payload ==
  /\ At("payload")
  /\ Return(DelegatedResult)
  /\ UNCHANGED <<fs, dirs, metadata, env, mounted, forced, exitCode, fs0, dirs0, calls,
                 scans, cmds, deleted>>

\* ---------------------------------------------------------------- _extract_md5
\* base_file = self.rom_path.with_suffix('')
BaseFile(rom) == Parent(rom) \o <<Stem(FileName(rom))>>

\* _extract_md5 creating the output directory first, as the decoders do.
Md5MkdirFirst ==
  /\ At("md5")
  /\ dirs' = MkdirP(dirs, Top.out)
  /\ IF BaseFile(Top.rom) \in DOMAIN fs
     THEN Call(BaseFile(Top.rom), Top.out, "md5_ret")
     ELSE /\ Raise("FileNotFoundError")
          /\ UNCHANGED stack
  /\ UNCHANGED <<fs, metadata, env, mounted, forced, exitCode, fs0, dirs0, calls,
                 scans, cmds, deleted>>

Md5 ==
  /\ At("md5")
  /\ IF BaseFile(Top.rom) \in DOMAIN fs
     THEN Call(BaseFile(Top.rom), Top.out, "md5_ret")
     ELSE /\ Raise("FileNotFoundError")
          /\ UNCHANGED stack
  /\ UNCHANGED <<fs, dirs, metadata, env, mounted, forced, exitCode, fs0, dirs0, calls,
                 scans, cmds, deleted>>

\* return sub_ext.extract()
Md5Return ==
  /\ At("md5_ret")
  /\ Return(ret)
  /\ UNCHANGED <<fs, dirs, metadata, env, mounted, forced, exitCode, fs0, dirs0, calls,
                 scans, cmds, deleted>>

\* ---------------------------------------------------------------- _scan_output
\* The walk, the write of extraction_metadata.json, and the return.
Scan ==
  /\ At("scan")
  /\ LET m == ScanResult(Top.fmt, Top.out, fs, dirs)
     IN  /\ fs' = WriteFile(fs, Top.out \o <<MetaName>>, JsonBlob)
         /\ metadata' = (Top.out :> m) @@ metadata
         /\ scans' = Append(scans, [out |-> Top.out, depth |-> Depth, files |-> m.files,
                                    unwrapping |-> {stack[k].rom : k \in 2..Depth}])
         /\ Return(m)
  /\ UNCHANGED <<dirs, env, mounted, forced, exitCode, fs0, dirs0, calls, cmds, deleted>>

\* ------------------------------------------------------------- specification
Next ==
  \/ MainStart
  \/ Extract
  \/ ZipExtract \/ ZipLoop \/ ZipUnlink
  \/ TarExtract
  \/ Lz4Decode \/ Lz4Nest \/ Lz4Unlink
  \/ BrotliDecode \/ BrotliNest \/ BrotliUnlink
  \/ SparseConvert \/ Ext4Mount \/ Ext4Copy \/ Ext4Umount \/ Ext4Rmdir
  \/ Payload
  \/ Md5 \/ Md5Return
  \/ Scan
  \/ MainExit

Spec == Init /\ [][Next]_vars

\* ------------------------------------------------------------------- claims
Range(q) == {q[k] : k \in 1..Len(q)}
OutputTree == {q \in DOMAIN fs : IsUnder(OutDir, q)}
CallNames(k) == FileName(calls[k].rom)

\* C1: the chain of nested extract() calls stays within a fixed bound for every
\* input, a self-nesting archive included: no run needs a call beyond the
\* depth MaxDepth, which exceeds the nesting of every finite input here.
C1_RecursionDepthBounded == status # "overrun"

\* C2: extracting a zip that holds a tar that holds one plain file into a fresh
\* output directory ends with that plain file as the only file of the output
\* tree (the run's own manifest file aside) and as the only entry of the
\* returned manifest's file list.
ZipOfTarOfPlain == Zip(<<Member(<<>>, <<"x", "tar">>, TarA)>>)

C2_RoundTripOnlyPlainFile ==
  (status = "returned" /\ fs0[Root.rom] = ZipOfTarOfPlain) =>
    LET tree == OutputTree \ {OutDir \o <<MetaName>>}
    IN  \E q \in tree : /\ tree = {q}
                        /\ FileName(q) = ATxt
                        /\ ret.files = <<Rel(OutDir, q)>>

\* C3 (as stated): a file named *.tar.br (one that starts with no zip, lz4 or
\* sparse-image signature, which C6 puts first) is classified as brotli, and
\* when the top-level run on it returns, no .tar file exists in the output
\* tree or in the manifest's file list.
IsTarBr(n) == EndsWithExt(n, <<"tar", "br">>)
IsTar(n) == EndsWithExt(n, <<"tar">>)
TarBrClassifiedBrotli ==
  \A k \in 1..Len(calls) :
    (IsTarBr(CallNames(k)) /\ calls[k].magic \notin {"PK0304", "04224D18", "0000000"})
      => calls[k].fmt = "br"

C3_NoTarFileLeft ==
  /\ TarBrClassifiedBrotli
  /\ (status = "returned" /\ IsTarBr(FileName(Root.rom)) /\ Root.fmt = "br") =>
       /\ \A q \in OutputTree : ~IsTar(FileName(q))
       /\ \A r \in Range(ret.files) : ~IsTar(FileName(r))

\* C3 (amended): such a file is classified as brotli; when the top-level run
\* on it returns, the .tar file the brotli decode produced has been extracted
\* by a nested extract() call and deleted, and is neither in the output tree
\* nor in the manifest's file list (a .tar member of the decoded archive is
\* not unwrapped and stays).
C3_ProducedTarUnwrapped ==
  /\ TarBrClassifiedBrotli
  /\ (status = "returned" /\ IsTarBr(FileName(Root.rom)) /\ Root.fmt = "br") =>
       LET produced == OutputFile(Root.out, Root.rom)
       IN  /\ IsTar(FileName(produced))
           /\ \E k \in 1..Len(calls) : calls[k].rom = produced /\ calls[k].depth = 2
           /\ produced \in deleted
           /\ produced \notin DOMAIN fs
           /\ Rel(Root.out, produced) \notin Range(ret.files)
           /\ Rel(Root.out, produced) \notin Range(metadata[Root.out].files)

C3_Witness ==
  /\ status = "returned"
  /\ IsTarBr(FileName(Root.rom))
  /\ Root.fmt = "br"
  /\ OutputFile(Root.out, Root.rom) \in deleted
  /\ \E q \in OutputTree : IsTar(FileName(q))

\* C4: an error raised while a nested candidate of a zip is being decoded does
\* not end the run in failure (the remaining candidates are decoded and a
\* manifest is returned).
C4_NestedFailureDoesNotAbort ==
  (Depth > 1 /\ Root.pc = "zip_unlink" /\ error # "") => status # "failed"

\* C5: after a run that ended in failure, every manifest file the run wrote
\* and left in the output tree is marked incomplete.
C5_NoUnmarkedManifestAfterFailure ==
  status = "failed" =>
    \A d \in DOMAIN metadata :
      (d \o <<MetaName>>) \in DOMAIN fs => "incomplete" \in metadata[d].keys

\* C6: a blob that starts with a supported magic sequence is given the tag of
\* that sequence by detect_format, whatever its file name.
MagicTag(m) ==
  CASE m = "PK0304"   -> "zip"
    [] m = "28B52FFD" -> "br"
    [] m = "04224D18" -> "lz4"
    [] m = "0000000"  -> "sparse"

C6_MagicPrecedence ==
  \A k \in 1..Len(calls) :
    calls[k].magic \in {"PK0304", "28B52FFD", "04224D18", "0000000"}
      => calls[k].fmt = MagicTag(calls[k].magic)

C6_Witness ==
  \E k \in 1..Len(calls) :
    CallNames(k) = PayloadBin /\ calls[k].magic = "PK0304" /\ calls[k].fmt = "zip"

\* C7: a blob with no recognized magic whose name is not payload.bin and ends
\* in none of the recognized extensions is classified 'unknown', and
\* extract() raises the unsupported-format error without entering a decoder.
RecognizedExtensions ==
  UNION {SUPPORTED_FORMATS[i].exts : i \in 1..Len(SUPPORTED_FORMATS)}
    \cup {<<"gz">>, <<"bz2">>, <<"xz">>}

RecognizedName(n) ==
  \/ Lower(n) = PayloadBin
  \/ \E e \in RecognizedExtensions : EndsWithExt(Lower(n), e)

C7_UnknownFallback ==
  \A k \in 1..Len(calls) :
    (calls[k].magic = "none" /\ ~RecognizedName(CallNames(k))) =>
      /\ calls[k].fmt = "unknown"
      /\ k = Len(calls)
      /\ status = "failed"
      /\ error = "ValueError"

\* C8: a run on a checksum sidecar whose base file does not exist fails with
\* the missing-file error, and creates no file, no directory and no manifest.
SidecarWithoutBase ==
  /\ status # "start"
  /\ Root.pc # "extract"
  /\ Root.fmt = "md5"
  /\ BaseFile(Root.rom) \notin DOMAIN fs0

C8_MissingBaseCreatesNothing ==
  SidecarWithoutBase =>
    /\ fs = fs0
    /\ dirs = dirs0
    /\ DOMAIN metadata = {}
    /\ status \in {"running", "failed"}
    /\ status = "failed" => (error = "FileNotFoundError" /\ Depth = 1)

C8_Witness ==
  /\ SidecarWithoutBase
  /\ status = "failed"
  /\ error = "FileNotFoundError"
  /\ OutDir \notin dirs

\* C9: in every manifest _scan_output produced, each path of build_props and
\* of partition_images is also a path of files.
SpecializedInFiles(m) ==
  Range(m.build_props) \cup Range(m.partition_images) \subseteq Range(m.files)

C9_SpecializedListsSubset ==
  /\ \A d \in DOMAIN metadata : SpecializedInFiles(metadata[d])
  /\ SpecializedInFiles(ret)

C9_Witness ==
  \E d \in DOMAIN metadata :
    /\ metadata[d].build_props # <<>>
    /\ metadata[d].partition_images # <<>>
    /\ Len(metadata[d].files) > Len(metadata[d].build_props)
                                  + Len(metadata[d].partition_images)

\* C10: the extract() step of a blob classified as payload-bundle returns the
\* delegated result and changes nothing: no directory, no file, no manifest,
\* no further extract() call.
C10_PayloadDelegatesOnly ==
  [][At("payload") =>
       /\ ret' = DelegatedResult
       /\ "delegated" \in ret'.keys
       /\ fs' = fs
       /\ dirs' = dirs
       /\ metadata' = metadata
       /\ calls' = calls
       /\ Len(stack') <= Len(stack)]_vars

C10_Witness ==
  /\ status = "returned"
  /\ Root.fmt = "payload"
  /\ ret = DelegatedResult
  /\ fs = fs0 /\ dirs = dirs0
  /\ Len(calls) = 1

\* C11: the CLI exits with 0 exactly when the top-level extract() returned a
\* result (a manifest or the delegated result), and with a non-zero code
\* exactly when the run ended in a failure.
C11_ExitZeroIffReturned ==
  exitCode # -1 => (exitCode = 0 <=> status = "returned")

\* C12: in one run the manifest scan happens once, and not while a nested
\* archive of the output tree is still being unwrapped: no nested decode step
\* scans on its own (a checksum sidecar hands the whole run to its base file,
\* whose scan is then the run's one scan).
InOutputTree(S) == {r \in S : IsUnder(OutDir, r)}

C12_ScanOncePerRun ==
  /\ Len(scans) <= 1
  /\ \A k \in 1..Len(scans) : InOutputTree(scans[k].unwrapping) = {}

\* C13: once the mount command of _extract_ext4 has been run, the umount
\* command is run, after it, before _extract_ext4 is left, by return or by an
\* exception, whatever the copy loop did.
Ran(c) == {k \in 1..Len(cmds) : cmds[k].cmd = c}

Ext4Left ==
  \/ status \in {"failed", "returned"}
  \/ \E k \in 1..Depth : stack[k].fmt = "sparse" /\ stack[k].pc \in {"scan", "done"}

C13_UmountAlwaysAttempted ==
  (Ran("mount") # {} /\ Ext4Left) =>
    \A j \in Ran("mount") : \E k \in Ran("umount") : j < k

\* A copy raised after the first item had been copied, the image being
\* mounted; umount was run and the exception went on to main().
C13_Witness ==
  /\ status = "failed"
  /\ error = "OSError"
  /\ Root.pending = "OSError"
  /\ Root.i > 1
  /\ \E j \in Ran("mount") : cmds[j].ok
  /\ Ran("umount") # {}

\* C14: a run whose mount command failed does not return a manifest: it ends
\* in failure.
C14_MountFailureFailsRun ==
  (\E j \in Ran("mount") : ~cmds[j].ok) => status # "returned"

\* C15: every nested candidate (an archive of the output tree handed to a
\* nested extract() call) is decoded into a directory that no other extract()
\* call of the run, parent or sibling, decodes into.
C15_FreshDestinationPerCandidate ==
  \A j, k \in 1..Len(calls) :
    (j # k /\ IsUnder(OutDir, calls[k].rom)) => calls[j].out # calls[k].out

\* C16: no scan visits a nested archive that is still being unwrapped: the
\* files a scan lists never include the archive of an extract() call that is
\* active at that moment.
C16_NoScanOfArchiveInProgress ==
  \A k \in 1..Len(scans) :
    \A r \in InOutputTree(scans[k].unwrapping) :
      IsUnder(scans[k].out, r) => Rel(scans[k].out, r) \notin Range(scans[k].files)

\* C17: when an lz4 or a brotli step has written its output file and that
\* file's suffix is a container suffix (.zip, .tar, .md5, .lz4), the file is
\* handed to a nested extract() call and unlinked before the step goes on to
\* its scan, in the lz4 adapter as in the brotli adapter.
C17_ProducedContainerUnwrapped ==
  \A k \in 1..Depth :
    ( /\ stack[k].fmt \in {"lz4", "br"}
      /\ stack[k].pc \in {"scan", "done"}
      /\ Suffix(FileName(stack[k].outfile)) \in NestedSuffixes )
    => /\ \E c \in 1..Len(calls) : calls[c].rom = stack[k].outfile
       /\ stack[k].outfile \in deleted

\* C18: the manifest a top-level extract() call returns, and the manifest file
\* of the output directory at that moment, carry as format the format tag of
\* the blob the run was started on.
C18_ManifestRecordsRootFormat ==
  (status = "returned" /\ "files" \in ret.keys) =>
    /\ ret.format = calls[1].fmt
    /\ Root.out \in DOMAIN metadata
    /\ metadata[Root.out].format = calls[1].fmt

\* C19: with --format F, the decoder the top-level extract() call selects is
\* the decoder of F.
C19_ForcedFormatSelectsDecoder ==
  (forced # "" /\ Len(calls) >= 1) => calls[1].fmt = forced

\* C20: when a nested extract() call has failed and its error is on its way
\* to main(), the nested archive it was called on, and every nested archive
\* of the calls around it, is still a file of the output tree, not unlinked,
\* and still holds what it held when its extract() call began.
FailedNestedArchives ==
  IF status = "failed" THEN {k \in 2..Depth : IsUnder(OutDir, stack[k].rom)} ELSE {}

NestedArchiveKept(k) ==
  /\ stack[k].rom \in DOMAIN fs
  /\ stack[k].rom \notin deleted

NestedArchiveIntact(k) ==
  \A c \in 1..Len(calls) :
    (calls[c].rom = stack[k].rom /\ calls[c].depth = k) => fs[stack[k].rom] = calls[c].blob

C20_FailedUnwrapKeepsArchive ==
  \A k \in FailedNestedArchives : NestedArchiveKept(k) /\ NestedArchiveIntact(k)
=============================================================================
